---- MODULE Spec2Model ----
(***************************************************************************)
(* skctl: update_kubeconfig (src/skctl/skctl.py, lines 66-113).            *)
(*                                                                         *)
(* The kubeconfig file is the only shared state.  One invocation of        *)
(* update_kubeconfig is a sequence of file-system steps:                   *)
(*   exists-check -> [mkdir, open 'w', dump skeleton] -> open 'r' + load   *)
(*   -> three in-memory upserts + current-context -> open 'w' -> dump.     *)
(* open(..., 'w') truncates the file before anything is written, so the    *)
(* truncation and the dump are separate steps of the model.                *)
(***************************************************************************)
EXTENDS Integers, Sequences, FiniteSets, TLC

\* ---------------------------------------------------------------- bounds
MaxCalls == 2        \* invocations of update_kubeconfig per process (Spec)

Names == {"a", "b"}              \* entry names / context names
Payloads == {1, 2}               \* opaque payload mappings, abstracted
Procs == {1, 2}                  \* OS processes running `skctl switch`

\* ------------------------------------------------------------ data model
\* One element of config["contexts"] / ["clusters"] / ["users"]:
\* {"name": ..., "context"|"cluster"|"user": ...}.
Entry == [name : Names, payload : Payloads]

E(n, v) == [name |-> n, payload |-> v]

\* What yaml.safe_load can put under one of the three keys.  kind "list" is a
\* YAML sequence of entries; the others are the values a hand-edited file may
\* hold there: key absent, null, a number, an empty or non-empty string, an
\* empty or non-empty mapping.
L(items) == [kind |-> "list", items |-> items]

Bad(k) == [kind |-> k, items |-> <<>>]

BadKinds == {"missing", "null", "num", "emptystr", "str", "emptymap", "map"}

\* A parsed kubeconfig document (apiVersion and kind are fixed literals and are
\* never touched by the code; preferences is carried through).
Doc(ctx, clu, usr, cc, prefs) ==
    [contexts |-> ctx, clusters |-> clu, users |-> usr,
     cc |-> cc, preferences |-> prefs]

\* The skeleton written when the file is absent (lines 74-75).
Skeleton == Doc(L(<<>>), L(<<>>), L(<<>>), "", "{}")

\* The file on disk: absent, zero bytes (just truncated by open 'w'), a prefix
\* of a dump, bytes of two overlapping writers, or a complete YAML document.
FileAbsent == [state |-> "absent", doc |-> Skeleton]

FileEmpty == [state |-> "empty", doc |-> Skeleton]

FileGarbled == [state |-> "garbled", doc |-> Skeleton]

FileDoc(d) == [state |-> "doc", doc |-> d]

\* yaml.dump sorts the keys: apiVersion, clusters, contexts, current-context,
\* kind, preferences, users.  A dump cut short before the last key leaves a
\* file that parses as the document without its "users" key.
Truncated(d) == FileDoc([d EXCEPT !.users = Bad("missing")])

\* The fragment returned by the service (kubeconfig_data).  Each of the three
\* lists holds its entries (the code reads only index 0); current-context is a
\* name or absent.
CcAbsent == "<absent>"

Fragment(ctx, clu, usr, cc) ==
    [contexts |-> ctx, clusters |-> clu, users |-> usr, cc |-> cc]

NoFragment == Fragment(<<>>, <<>>, <<>>, CcAbsent)

\* --------------------------------------------------------- the merge logic
Ok(v) == [ok |-> TRUE, val |-> v]

Err(v) == [ok |-> FALSE, val |-> v]

\* Index of the first entry named n, 0 when there is none: the for loop of
\* lines 82-86 (92-96, 102-106) stops at the first match (break).
FirstIndex(items, n) ==
    IF \E i \in 1..Len(items) : items[i].name = n
    THEN CHOOSE i \in 1..Len(items) :
            /\ items[i].name = n
            /\ \A j \in 1..(i - 1) : items[j].name # n
    ELSE 0

\* Variants of the upsert, each a slip the block could contain.
\* The name is never found: every merge appends.
UpsertAlwaysAppend(lv, fl) ==
    IF lv.kind # "list" THEN Err(lv)
    ELSE IF Len(fl) = 0 THEN Err(lv)
    ELSE Ok(L(Append(lv.items, fl[1])))

\* The entry found is taken out and the fragment's entry is put at the end.
UpsertMoveToEnd(lv, fl) ==
    IF lv.kind # "list" THEN Err(lv)
    ELSE IF Len(fl) = 0 THEN Err(lv)
    ELSE LET i == FirstIndex(lv.items, fl[1].name)
             rest == IF i > 0
                     THEN SubSeq(lv.items, 1, i - 1)
                             \o SubSeq(lv.items, i + 1, Len(lv.items))
                     ELSE lv.items
         IN  Ok(L(Append(rest, fl[1])))

\* A new entry is inserted at the head of the list instead of the end.
UpsertInsertFront(lv, fl) ==
    IF lv.kind # "list" THEN Err(lv)
    ELSE IF Len(fl) = 0 THEN Err(lv)
    ELSE LET i == FirstIndex(lv.items, fl[1].name)
         IN  IF i > 0
             THEN Ok(L([lv.items EXCEPT ![i].payload = fl[1].payload]))
             ELSE Ok(L(<<fl[1]>> \o lv.items))

\* A missing key or a null is read as an empty list (config.get(key) or []).
UpsertLenient(lv, fl) ==
    IF Len(fl) = 0 THEN Err(lv)
    ELSE IF lv.kind \in {"missing", "null"} THEN Ok(L(<<fl[1]>>))
    ELSE IF lv.kind # "list" THEN Err(lv)
    ELSE LET i == FirstIndex(lv.items, fl[1].name)
         IN  IF i > 0
             THEN Ok(L([lv.items EXCEPT ![i].payload = fl[1].payload]))
             ELSE Ok(L(Append(lv.items, fl[1])))

\* Every later entry of the name is dropped when the first is replaced.
UpsertDedup(lv, fl) ==
    IF lv.kind # "list" THEN Err(lv)
    ELSE IF Len(fl) = 0 THEN Err(lv)
    ELSE LET i == FirstIndex(lv.items, fl[1].name)
             keep == SelectSeq(lv.items, LAMBDA e : e.name # fl[1].name)
         IN  IF i > 0
             THEN Ok(L(SubSeq(keep, 1, i - 1) \o <<fl[1]>>
                          \o SubSeq(keep, i, Len(keep))))
             ELSE Ok(L(Append(lv.items, fl[1])))

\* One "update or add" block (lines 81-88, 91-98, 101-108) on the value lv found
\* under the key and the fragment's list fl.
\*   key absent                 -> KeyError on config[key]
\*   null, number               -> TypeError: not iterable
\*   non-empty string / mapping -> the loop variable is a str: x["name"] TypeError
\*   empty string / mapping     -> the loop body never runs; .append AttributeError
\*   list, fragment list empty  -> IndexError on kubeconfig_data[key][0], in the
\*                                 first comparison or in the append
\*   list, fragment entry e     -> first entry named e.name gets e's payload in
\*                                 place, else e is appended
Upsert(lv, fl) ==
    IF lv.kind # "list" THEN Err(lv)
    ELSE IF Len(fl) = 0 THEN Err(lv)
    ELSE LET i == FirstIndex(lv.items, fl[1].name)
         IN  IF i > 0
             THEN Ok(L([lv.items EXCEPT ![i].payload = fl[1].payload]))
             ELSE Ok(L(Append(lv.items, fl[1])))

\* Variant of the merge: current-context is set only when the fragment's
\* context was not in the file yet.
MergeSwitchOnlyOnNewContext(d, f) ==
    LET r1 == Upsert(d.contexts, f.contexts)
        r2 == Upsert(d.clusters, f.clusters)
        r3 == Upsert(d.users, f.users)
    IN  IF ~r1.ok \/ ~r2.ok \/ ~r3.ok \/ f.cc = CcAbsent THEN Err(d)
        ELSE Ok([d EXCEPT !.contexts = r1.val, !.clusters = r2.val,
                          !.users = r3.val,
                          !.cc = IF FirstIndex(d.contexts.items, f.contexts[1].name) = 0
                                 THEN f.cc ELSE @])

\* Lines 80-110: contexts, then clusters, then users, then current-context.
\* An exception at any point abandons the in-memory config: nothing is written.
Merge(d, f) ==
    LET r1 == Upsert(d.contexts, f.contexts)
        r2 == Upsert(d.clusters, f.clusters)
        r3 == Upsert(d.users, f.users)
    IN  IF ~r1.ok THEN Err(d)
        ELSE IF ~r2.ok THEN Err(d)
        ELSE IF ~r3.ok THEN Err(d)
        ELSE IF f.cc = CcAbsent THEN Err(d)
        ELSE Ok([d EXCEPT !.contexts = r1.val, !.clusters = r2.val,
                          !.users = r3.val, !.cc = f.cc])

\* Variant of the load: the merge starts from a fresh skeleton instead of the
\* document read.
LoadAndMergeFresh(fl, f) ==
    IF fl.state = "doc" THEN Merge(Skeleton, f) ELSE Err(fl.doc)

\* yaml.safe_load of the file followed by the merge (lines 77-110).
\*   absent  -> FileNotFoundError;  empty -> None, config["contexts"] TypeError;
\*   garbled -> yaml error;         doc   -> Merge
LoadAndMerge(fl, f) ==
    IF fl.state = "doc" THEN Merge(fl.doc, f) ELSE Err(fl.doc)

\* What a completed dump leaves in the file.  Each writer has its own offset 0:
\* if another writer has written since this one truncated, the bytes of the
\* longer document survive past the end of the shorter one.
DumpOutcomes(cur, d) ==
    IF cur.state = "empty" THEN {FileDoc(d)} ELSE {FileDoc(d), FileGarbled}

\* What a dump that raises, or a process killed during the dump, leaves.
DumpFailOutcomes(cur, d) ==
    IF cur.state = "empty" THEN {FileEmpty, Truncated(d)} ELSE {cur, FileGarbled}

\* ------------------------------------------------------------------ state
VARIABLES
    kubeconfig,       \* content of KUBECONFIG_FILE
    pc,               \* per process: position inside update_kubeconfig
    kubeconfig_data,  \* per process: the argument kubeconfig_data
    config,           \* per process: the local variable config after the merge
    calls,            \* per process: number of invocations started
    pre,              \* history: the file when the invocation started
    last,             \* history: per list and name, payload last merged
    prevFrag,         \* history: per process, argument of its last successful call
    overlap,          \* history: an invocation started while another was running
    inits             \* history: processes that wrote the skeleton

vars ==
    <<kubeconfig, pc, kubeconfig_data, config, calls, pre, last, prevFrag,
      overlap, inits>>

ListKeys == {"contexts", "clusters", "users"}

NoLast == [k \in ListKeys |-> [n \in Names |-> 0]]

\* pc: "idle" outside the function; "init", "init_dump", "load", "write", "dump"
\* inside it; "done" when it returned; "failed" when lines 77-110 raised,
\* "open_failed" when mkdir or an open raised, "dump_failed" when a dump did.
Ended == {"done", "failed", "open_failed", "dump_failed"}

Running(p) == pc[p] \notin Ended \cup {"idle"}

\* ----------------------------------------------------------------- inputs
\* Well-formed fragments.  The three names vary independently, with one payload
\* and current-context naming the fragment's context; and the three payloads
\* vary independently, with one name and current-context naming another
\* context (the code never compares the two).
Other(n) == CHOOSE m \in Names : m # n

WellFormedFragments ==
    {Fragment(<<E(c, v)>>, <<E(k, v)>>, <<E(u, v)>>, c) :
        c \in Names, k \in Names, u \in Names, v \in Payloads}
    \cup
    {Fragment(<<E(n, v1)>>, <<E(n, v2)>>, <<E(n, v3)>>, Other(n)) :
        n \in Names, v1 \in Payloads, v2 \in Payloads, v3 \in Payloads}

BaseFragment == Fragment(<<E("a", 2)>>, <<E("a", 2)>>, <<E("a", 2)>>, "a")

MalformedFragments ==
    {[BaseFragment EXCEPT !.contexts = <<>>],
     [BaseFragment EXCEPT !.clusters = <<>>],
     [BaseFragment EXCEPT !.users = <<>>],
     [BaseFragment EXCEPT !.cc = CcAbsent]}

Fragments == WellFormedFragments \cup MalformedFragments

WellFormed(f) ==
    /\ Len(f.contexts) > 0 /\ Len(f.clusters) > 0 /\ Len(f.users) > 0
    /\ f.cc # CcAbsent

\* Files the tool may find: none, or a document whose lists are drawn from
\* shapes that cover the cases (empty, one entry, two entries, a duplicated
\* name, a non-list).  The non-lists and the duplicate are put in one list at
\* a time, beside well-formed lists.
GoodLists == {L(<<>>), L(<<E("b", 1), E("a", 1)>>)}

DupList == L(<<E("a", 1), E("b", 1), E("a", 1)>>)

GoodDocs ==
    {Doc(c, k, u, "", "{}") : c \in GoodLists, k \in GoodLists, u \in GoodLists}

BaseDoc == Doc(L(<<E("a", 1)>>), L(<<E("a", 1)>>), L(<<E("a", 1)>>), "b", "colors")

OddLists == {Bad(k) : k \in BadKinds} \cup {DupList}

OddDocs ==
    {[BaseDoc EXCEPT ![key] = l] : key \in ListKeys, l \in OddLists}

InitFiles == {FileAbsent} \cup {FileDoc(d) : d \in GoodDocs \cup OddDocs \cup {BaseDoc}}

\* ------------------------------------------------------------------- Init
InitWith(files) ==
    /\ kubeconfig \in files
    /\ pc = [p \in Procs |-> "idle"]
    /\ kubeconfig_data = [p \in Procs |-> NoFragment]
    /\ config = [p \in Procs |-> Skeleton]
    /\ calls = [p \in Procs |-> 0]
    /\ pre = [p \in Procs |-> FileAbsent]
    /\ last = NoLast
    /\ prevFrag = [p \in Procs |-> NoFragment]
    /\ overlap = FALSE
    /\ inits = {}

Init == InitWith(InitFiles)

\* ---------------------------------------------------------------- actions
\* Entry into update_kubeconfig(f) and the exists() test of line 71.
Call(p, f) ==
    /\ pc[p] = "idle"
    /\ kubeconfig_data' = [kubeconfig_data EXCEPT ![p] = f]
    /\ calls' = [calls EXCEPT ![p] = @ + 1]
    /\ pre' = [pre EXCEPT ![p] = kubeconfig]
    /\ overlap' = (overlap \/ \E q \in Procs \ {p} : Running(q))
    /\ pc' = [pc EXCEPT ![p] = IF kubeconfig.state = "absent" THEN "init" ELSE "load"]
    /\ UNCHANGED <<kubeconfig, config, last, prevFrag, inits>>

\* Lines 72-73: mkdir(parents, exist_ok) and open(KUBECONFIG_FILE, 'w'), which
\* creates the file or truncates whatever is there by now.
InitOpen(p) ==
    /\ pc[p] = "init"
    /\ kubeconfig' = FileEmpty
    /\ pc' = [pc EXCEPT ![p] = "init_dump"]
    /\ UNCHANGED <<kubeconfig_data, config, calls, pre, last, prevFrag, overlap, inits>>

\* Lines 74-75: yaml.dump of the skeleton, and the close of the with block.
InitDump(p) ==
    /\ pc[p] = "init_dump"
    /\ kubeconfig' \in DumpOutcomes(kubeconfig, Skeleton)
    /\ inits' = inits \cup {p}
    /\ pc' = [pc EXCEPT ![p] = "load"]
    /\ UNCHANGED <<kubeconfig_data, config, calls, pre, last, prevFrag, overlap>>

\* Lines 77-110: read the file, upsert the three entries, set current-context.
\* Everything after the read is local to the process.
Load(p) ==
    /\ pc[p] = "load"
    /\ LET r == LoadAndMerge(kubeconfig, kubeconfig_data[p])
       IN  IF r.ok
           THEN /\ config' = [config EXCEPT ![p] = r.val]
                /\ pc' = [pc EXCEPT ![p] = "write"]
           ELSE /\ config' = config
                /\ pc' = [pc EXCEPT ![p] = "failed"]
    /\ UNCHANGED <<kubeconfig, kubeconfig_data, calls, pre, last, prevFrag, overlap, inits>>

\* Line 112: open(KUBECONFIG_FILE, 'w') truncates the file.
WriteOpen(p) ==
    /\ pc[p] = "write"
    /\ kubeconfig' = FileEmpty
    /\ pc' = [pc EXCEPT ![p] = "dump"]
    /\ UNCHANGED <<kubeconfig_data, config, calls, pre, last, prevFrag, overlap, inits>>

Merged(f) ==
    [k \in ListKeys |-> [n \in Names |->
        IF f[k][1].name = n THEN f[k][1].payload ELSE last[k][n]]]

\* Line 113: yaml.dump(config, f) and the close; the function returns.
WriteDump(p) ==
    /\ pc[p] = "dump"
    /\ kubeconfig' \in DumpOutcomes(kubeconfig, config[p])
    /\ last' = Merged(kubeconfig_data[p])
    /\ pc' = [pc EXCEPT ![p] = "done"]
    /\ UNCHANGED <<kubeconfig_data, config, calls, pre, prevFrag, overlap, inits>>

\* mkdir or an open raises OSError (lines 72-73, 77, 112): nothing was touched.
OpenFail(p) ==
    /\ pc[p] \in {"init", "load", "write"}
    /\ pc' = [pc EXCEPT ![p] = "open_failed"]
    /\ UNCHANGED <<kubeconfig, kubeconfig_data, config, calls, pre, last, prevFrag, overlap, inits>>

\* The dump raises, or the process is killed, after the truncating open
\* (lines 73-75, 112-113).
DumpFail(p) ==
    /\ pc[p] \in {"init_dump", "dump"}
    /\ kubeconfig' \in DumpFailOutcomes(kubeconfig, IF pc[p] = "dump" THEN config[p] ELSE Skeleton)
    /\ pc' = [pc EXCEPT ![p] = "dump_failed"]
    /\ UNCHANGED <<kubeconfig_data, config, calls, pre, last, prevFrag, overlap, inits>>

\* The invocation is over (returned or raised); the process may run another.
Return(p) ==
    /\ pc[p] \in Ended
    /\ pc' = [pc EXCEPT ![p] = "idle"]
    /\ kubeconfig_data' = [kubeconfig_data EXCEPT ![p] = NoFragment]
    /\ config' = [config EXCEPT ![p] = Skeleton]
    /\ pre' = [pre EXCEPT ![p] = FileAbsent]
    /\ prevFrag' = [prevFrag EXCEPT ![p] = IF pc[p] = "done" THEN kubeconfig_data[p] ELSE @]
    /\ UNCHANGED <<kubeconfig, calls, last, overlap, inits>>

\* One process, one invocation after another: the tool as §5 describes it.
Next ==
    \/ \E f \in Fragments : calls[1] < MaxCalls /\ Call(1, f)
    \/ InitOpen(1)
    \/ InitDump(1)
    \/ Load(1)
    \/ WriteOpen(1)
    \/ WriteDump(1)
    \/ OpenFail(1)
    \/ DumpFail(1)
    \/ Return(1)

Spec == Init /\ [][Next]_vars

\* Two processes, one invocation each, on the same file: two `skctl switch`
\* commands started by the same user.  Nothing in the code serialises them.
ZoneFragment(n, v) == Fragment(<<E(n, v)>>, <<E(n, v)>>, <<E(n, v)>>, n)

ConcFragments == {ZoneFragment(n, v) : n \in Names, v \in Payloads}

ConcInitFiles == {FileAbsent, FileDoc(Skeleton), FileDoc(BaseDoc)}

InitConc == InitWith(ConcInitFiles)

NextConc ==
    \E p \in Procs :
        \/ \E f \in ConcFragments : calls[p] < 1 /\ Call(p, f)
        \/ InitOpen(p)
        \/ InitDump(p)
        \/ Load(p)
        \/ WriteOpen(p)
        \/ WriteDump(p)
        \/ OpenFail(p)
        \/ DumpFail(p)

SpecConc == InitConc /\ [][NextConc]_vars

\* ============================================================ properties
\* The document an invocation merges into: the file it found, or the skeleton
\* it wrote when there was none.
PreDoc(p) == IF pre[p].state = "absent" THEN Skeleton ELSE pre[p].doc

Count(items, n) == Cardinality({i \in 1..Len(items) : items[i].name = n})

NamesDistinct(lv) ==
    /\ lv.kind = "list"
    /\ \A i \in 1..Len(lv.items) : \A j \in 1..Len(lv.items) :
          lv.items[i].name = lv.items[j].name => i = j

DistinctDoc(d) == \A k \in ListKeys : NamesDistinct(d[k])

Max(x, y) == IF x > y THEN x ELSE y

\* C1: starting from a document whose three lists have pairwise-distinct names
\* (or from no file), after a sequence of successful merges every list still
\* has pairwise-distinct names, and for every name merged so far the entry of
\* that name carries the payload of the most recent fragment of that name.
C1_UniqueLastWins ==
    (pc[1] = "done" /\ DistinctDoc(PreDoc(1))) =>
        /\ kubeconfig.state = "doc"
        /\ DistinctDoc(kubeconfig.doc)
        /\ \A k \in ListKeys : \A n \in Names :
              last[k][n] # 0 =>
                 \E i \in 1..Len(kubeconfig.doc[k].items) :
                    kubeconfig.doc[k].items[i] = E(n, last[k][n])

\* A second successful merge, of other names than one merged before.
C1_Witness ==
    /\ pc[1] = "done" /\ DistinctDoc(PreDoc(1)) /\ calls[1] > 1
    /\ \E k \in ListKeys : \E n \in Names :
          last[k][n] # 0 /\ kubeconfig_data[1][k][1].name # n

\* C2: a merge that finds the fragment's name in a list replaces that entry
\* where it is: the length is unchanged, the entry at that index keeps the
\* name, every other index holds what it held.  And no merge removes or
\* reorders an entry: every old index keeps its name, and its content unless it
\* is the index replaced.
C2_PositionPreserved ==
    pc[1] = "done" =>
        \A k \in ListKeys :
            LET old == PreDoc(1)[k].items
                new == kubeconfig.doc[k].items
                i == FirstIndex(old, kubeconfig_data[1][k][1].name)
            IN  /\ kubeconfig.state = "doc"
                /\ Len(new) >= Len(old)
                /\ \A j \in 1..Len(old) :
                      /\ new[j].name = old[j].name
                      /\ j # i => new[j] = old[j]
                /\ i > 0 =>
                      /\ Len(new) = Len(old)
                      /\ new[i] = E(old[i].name, kubeconfig_data[1][k][1].payload)

\* An entry that is not the first of a two-entry list gets a new payload.
C2_Witness ==
    /\ pc[1] = "done"
    /\ \E k \in ListKeys :
          LET old == PreDoc(1)[k].items
              i == FirstIndex(old, kubeconfig_data[1][k][1].name)
          IN  /\ i > 1
              /\ old[i].payload # kubeconfig_data[1][k][1].payload
              /\ NamesDistinct(PreDoc(1)[k])

\* C3: after a successful merge the file's current-context is the fragment's.
C3_CurrentContext ==
    pc[1] = "done" => (kubeconfig.state = "doc" /\ kubeconfig.doc.cc = kubeconfig_data[1].cc)

\* The second merge switches away from the zone of the first, and the
\* fragment's current-context names a context that is not the one it carries.
C3_Witness ==
    /\ pc[1] = "done" /\ calls[1] > 1
    /\ PreDoc(1).cc \in Names /\ PreDoc(1).cc # kubeconfig_data[1].cc
    /\ kubeconfig_data[1].cc # kubeconfig_data[1].contexts[1].name

\* C4: merging a fragment again changes nothing: the merge of the persisted
\* document with the fragment just merged is that document; and an invocation
\* that repeats the argument of the previous successful one leaves the file as
\* it found it.
C4_Idempotent ==
    pc[1] = "done" =>
        /\ kubeconfig.state = "doc"
        /\ LoadAndMerge(kubeconfig, kubeconfig_data[1]) = Ok(kubeconfig.doc)
        /\ prevFrag[1] = kubeconfig_data[1] => kubeconfig = pre[1]

\* The same fragment merged twice in a row, the first time with an effect.
C4_Witness ==
    /\ pc[1] = "done" /\ prevFrag[1] = kubeconfig_data[1] /\ kubeconfig = pre[1]
    /\ Len(kubeconfig.doc.users.items) > 1

\* C5: a list that holds no entry of the fragment's name gets the fragment's
\* entry as its new last element, whatever happens in the other two lists; a
\* merge into no file gives three lists of one entry.
C5_Append ==
    pc[1] = "done" =>
        /\ kubeconfig.state = "doc"
        /\ \A k \in ListKeys :
              FirstIndex(PreDoc(1)[k].items, kubeconfig_data[1][k][1].name) = 0 =>
                 kubeconfig.doc[k].items = Append(PreDoc(1)[k].items, kubeconfig_data[1][k][1])
        /\ pre[1].state = "absent" =>
              \A k \in ListKeys : kubeconfig.doc[k].items = <<kubeconfig_data[1][k][1]>>

\* One list is appended to, behind an entry it held, while another list has
\* its entry replaced.
C5_Witness ==
    /\ pc[1] = "done"
    /\ \E k \in ListKeys : \E m \in ListKeys :
          /\ FirstIndex(PreDoc(1)[k].items, kubeconfig_data[1][k][1].name) = 0
          /\ Len(PreDoc(1)[k].items) > 0
          /\ FirstIndex(PreDoc(1)[m].items, kubeconfig_data[1][m][1].name) > 0

\* C6: a merge that fails on a fragment lacking clusters[0], contexts[0],
\* users[0] or current-context leaves the file as it was: same existence, same
\* content.
C6_MalformedFragmentNoWrite ==
    (pc[1] = "failed" /\ ~WellFormed(kubeconfig_data[1])) => kubeconfig = pre[1]

\* C7: once the final write has begun the file is never anything but the
\* complete previous document or the complete new one, and a write that fails
\* leaves the previous document.
C7_AllOrNothing ==
    /\ (pc[1] \in {"dump", "done", "dump_failed"} /\ pre[1].state = "doc") =>
          (kubeconfig = pre[1] \/ kubeconfig = FileDoc(config[1]))
    /\ (pc[1] = "dump_failed" /\ pre[1].state = "doc") => kubeconfig = pre[1]

\* C8: when one of the three keys of the existing document is missing or holds
\* a non-list, the merge never gets to its write: it fails and the file is as
\* it was.
C8_MalformedDocNoWrite ==
    (pc[1] # "idle" /\ pre[1].state = "doc"
        /\ \E k \in ListKeys : pre[1].doc[k].kind # "list") =>
        /\ pc[1] \in {"load", "failed", "open_failed"}
        /\ kubeconfig = pre[1]

\* The non-list is under "users": contexts and clusters were upserted in
\* memory before the failure.
C8_Witness ==
    /\ pc[1] = "failed" /\ pre[1].state = "doc" /\ WellFormed(kubeconfig_data[1])
    /\ pre[1].doc.contexts.kind = "list" /\ pre[1].doc.clusters.kind = "list"
    /\ pre[1].doc.users.kind # "list"
    /\ kubeconfig = pre[1]

\* C9 as claimed: whatever the existing lists hold, after a successful merge
\* of an entry named N the list holds at most one entry named N.
C9_UpsertEnforcesUnique ==
    pc[1] = "done" =>
        \A k \in ListKeys :
            kubeconfig.state = "doc" /\ Count(kubeconfig.doc[k].items, kubeconfig_data[1][k][1].name) <= 1

\* C9 amended: the upsert never adds a second entry of a name: after a
\* successful merge of an entry named N the list holds max(1, c) entries
\* named N, c being the number it held, and as many entries of every other
\* name as before.
C9_UpsertAddsNoDuplicate ==
    pc[1] = "done" =>
        \A k \in ListKeys : \A n \in Names :
            LET c == Count(PreDoc(1)[k].items, n)
            IN  /\ kubeconfig.state = "doc"
                /\ Count(kubeconfig.doc[k].items, n) =
                      IF n = kubeconfig_data[1][k][1].name THEN Max(1, c) ELSE c

\* A list that held the name twice still holds it twice after the merge.
C9_Witness ==
    /\ pc[1] = "done"
    /\ \E k \in ListKeys :
          /\ Count(PreDoc(1)[k].items, kubeconfig_data[1][k][1].name) = 2
          /\ Count(kubeconfig.doc[k].items, kubeconfig_data[1][k][1].name) = 2

\* C10: two invocations with different names that both return.  If neither
\* started while the other was running, the file holds the entries of both.
\* (That an overlap can lose one of them is the witness.)
AllDone == \A p \in Procs : pc[p] = "done"

DifferentNames ==
    \A k \in ListKeys : kubeconfig_data[1][k][1].name # kubeconfig_data[2][k][1].name

Holds(p) ==
    /\ kubeconfig.state = "doc"
    /\ \A k \in ListKeys :
          /\ kubeconfig.doc[k].kind = "list"
          /\ \E i \in 1..Len(kubeconfig.doc[k].items) : kubeconfig.doc[k].items[i] = kubeconfig_data[p][k][1]

C10_SequentialKeepsBoth ==
    (AllDone /\ DifferentNames /\ ~overlap) => \A p \in Procs : Holds(p)

\* Both invocations found no file, both wrote the skeleton, both returned, and
\* the file is a complete document without the entries of one of them.
C10_LostUpdate ==
    /\ AllDone /\ DifferentNames /\ overlap
    /\ inits = Procs
    /\ kubeconfig.state = "doc"
    /\ \E p \in Procs : ~Holds(p)

====
